---- MODULE Spec2Model ----
(***************************************************************************)
(* Model of the Markmap MCP Server's HTTP session router (src/src/index.ts)*)
(* and of the markdown_to_mindmap tool handler                             *)
(* (src/src/mcp/tools/markmap-tools.ts).                                   *)
(*                                                                         *)
(* The router runs on one event loop: a handler runs without interruption  *)
(* from one await to the next, so every action below is one such segment.  *)
(* StreamableHTTPServerTransport and McpServer are library objects; what   *)
(* the router awaits from them (server.connect, transport.handleRequest,   *)
(* transport.close) either resolves or rejects, and that is a choice of    *)
(* the environment.                                                        *)
(***************************************************************************)
EXTENDS Integers, Sequences, FiniteSets, TLC

\* Number of HTTP exchanges the model lets arrive on /mcp.
MaxReqs == 3

\* Exchanges, in order of arrival.  The transport and the McpServer that an
\* initialization POST constructs are named after the exchange that made them.
Reqs == 1..MaxReqs

\* Values of randomUUID(): the n-th call returns n (never a value returned before).
Sids == 1..MaxReqs

\* req.headers["mcp-session-id"] when the header is absent (undefined, falsy).
NoHeader == 0

\* A header value that is neither an issued identifier nor a property name of
\* Object.prototype.
UnknownId == MaxReqs + 1

\* A header value that names a property every object literal inherits
\* ("constructor", "toString", "__proto__", ...): transports[ProtoKey] is then
\* a value of Object.prototype, truthy, and not a transport.
ProtoKey == MaxReqs + 2

Headers == {NoHeader} \cup Sids \cup {UnknownId, ProtoKey}

\* transports[k] for a key the object does not hold (undefined, falsy).
NoTransport == 0
NoServer == 0

\* What transports[ProtoKey] evaluates to: an inherited value without handleRequest.
Inherited == MaxReqs + 1

Verbs == {"POST", "GET", "DELETE"}

\* Longest Markdown text given to the tool.
MaxLen == 3

\* Strings are sequences of characters.
Chars == {"#", "a"}

RECURSIVE StringsUpTo(_)
StringsUpTo(n) ==
    IF n = 0 THEN {<<>>}
    ELSE LET shorter == StringsUpTo(n - 1)
         IN  shorter \cup {Append(t, c) : t \in {u \in shorter : Len(u) = n - 1}, c \in Chars}

Markdowns == StringsUpTo(MaxLen)

\* JavaScript values the handler reads from what was thrown.
JsString(t) == [type |-> "string", s |-> t]

JsUndefined == [type |-> "undefined", s |-> <<>>]

\* What createMarkmap may reject with: an Error carrying a message (new Error()
\* has the message ""), a value that is no Error (a string has no message
\* property), or null/undefined.
Thrown ==
    {[kind |-> "Error", message |-> m] : m \in {<<>>, <<"E">>}}
    \cup {[kind |-> "string", message |-> <<"E">>], [kind |-> "null", message |-> <<>>]}

\* How an awaited call on a transport settles: it resolves with the response
\* committed, rejects before anything was written, or rejects after the
\* response was committed.
Outcomes == {"ok", "throwBefore", "throwAfter"}

VARIABLES
    transports,  \* the session table: own keys of the object literal `transports`
    tr,          \* the transport objects constructed so far
    req,         \* the HTTP exchanges
    nextId,      \* number of randomUUID() calls so far, plus one
    sd,          \* the SIGINT handler
    proc,        \* the process: "up", "exited" (process.exit(0)) or "crashed"
    express,     \* what express does with a rejected handler promise, once observed
    tool         \* one call of the markdown_to_mindmap handler

vars == <<transports, tr, req, nextId, sd, proc, express, tool>>

\* An exchange that has not arrived yet.  named: the header named an entry of the
\* table when the exchange arrived; tr: the value the handler took from the table
\* or constructed; nresp: responses written to res (res.headersSent is nresp > 0);
\* sid: the Mcp-Session-Id the response carries.
NewReq == [pc |-> "new", verb |-> "POST", hdr |-> NoHeader, init |-> FALSE,
           named |-> FALSE, tr |-> NoTransport, nresp |-> 0, status |-> 0,
           body |-> "none", sid |-> 0]

NewTransport == [made |-> FALSE, connected |-> FALSE, sid |-> 0, closed |-> FALSE,
                 closeCalled |-> FALSE, server |-> NoServer]

\* transports[h], computed as JavaScript computes a property read on {}.
Lookup(table, h) ==
    IF h \in Sids /\ table[h] # NoTransport THEN table[h]
    ELSE IF h = ProtoKey THEN Inherited
    ELSE NoTransport

\* Own enumerable keys of the table, in insertion order (identifiers are inserted
\* in the order they are generated).
RECURSIVE KeysFrom(_, _)
KeysFrom(table, k) ==
    IF k > MaxReqs THEN <<>>
    ELSE IF table[k] # NoTransport THEN <<k>> \o KeysFrom(table, k + 1)
    ELSE KeysFrom(table, k + 1)

OwnKeys(table) == KeysFrom(table, 1)


\* res.status(status).json(...) / .send(...), or the transport writing the response.
Respond(q, status, body) ==
    [q EXCEPT !.nresp = @ + 1, !.status = status, !.body = body, !.pc = "done"]

\* The transport commits the response of the exchange itself.
TransportCommit(q) ==
    [q EXCEPT !.nresp = @ + 1, !.status = 200, !.body = "transport"]

\* catch block of app.post: 500 with the -32603 envelope unless headers were sent.
CatchPost(q) ==
    IF q.nresp = 0 THEN Respond(q, 500, "rpc-32603") ELSE [q EXCEPT !.pc = "done"]

\* catch block of app.delete.
CatchDelete(q) ==
    IF q.nresp = 0 THEN Respond(q, 500, "Error processing session termination")
    ELSE [q EXCEPT !.pc = "done"]

\* app.get awaits transport.handleRequest outside any try: the handler's promise
\* rejects.  Express either forwards the rejection to its error handler, which
\* answers 500 when nothing was sent, or ignores it.
RejectedGet(q, forwards) ==
    IF forwards /\ q.nresp = 0 THEN Respond(q, 500, "express")
    ELSE [q EXCEPT !.pc = "done"]

\* The installed express is one or the other for the whole run; the model learns
\* which at the first rejection.
Observes(forwards) ==
    /\ express \in {"unobserved", IF forwards THEN "forwards" ELSE "ignores"}
    /\ express' = IF forwards THEN "forwards" ELSE "ignores"

\* An unhandled rejection ends the process unless node is told otherwise.
AfterRejection(forwards) ==
    proc' \in (IF forwards THEN {"up"} ELSE {"up", "crashed"})

\* app.post with the initialization test made before the table lookup.
PostRouteInitFirst(table, h, isInit) ==
    IF isInit THEN "create"
    ELSE IF h # NoHeader /\ Lookup(table, h) # NoTransport THEN "reuse"
    ELSE "reject"

\* app.post without the isInitializeRequest test.
PostRouteNoInitTest(table, h, isInit) ==
    IF h # NoHeader /\ Lookup(table, h) # NoTransport THEN "reuse"
    ELSE IF h = NoHeader THEN "create"
    ELSE "reject"

\* The branch app.post takes.
PostRoute(table, h, isInit) ==
    IF h # NoHeader /\ Lookup(table, h) # NoTransport THEN "reuse"
    ELSE IF h = NoHeader /\ isInit THEN "create"
    ELSE "reject"

\* The guard of app.get and app.delete: !sessionId || !transports[sessionId].
MissingOrUnknown(table, h) == h = NoHeader \/ Lookup(table, h) = NoTransport

\* No earlier call of the handler.
NoCall == [has |-> FALSE, markdown |-> <<>>, open |-> FALSE,
           request |-> [content |-> <<>>, openIt |-> FALSE],
           outcome |-> [kind |-> "none", message |-> <<>>],
           raised |-> FALSE, result |-> [none |-> TRUE]]

\* The tool handler before it is called.  outcome: how createMarkmap settled
\* ("fulfilled", or the value it rejected with); prev: the call before this one.
IdleTool == [pc |-> "idle", markdown |-> <<>>, open |-> FALSE,
             request |-> [content |-> <<>>, openIt |-> FALSE],
             outcome |-> [kind |-> "none", message |-> <<>>],
             threw |-> FALSE, raised |-> FALSE, result |-> [none |-> TRUE],
             prev |-> NoCall]

\* The rendering collaborator: Markdown text in, HTML text out.
CreateMarkmap(request) == [content |-> <<"<">> \o request.content \o <<">">>]

\* The handler passing the caller's flag on to createMarkmap.
MarkmapRequestPassesOpen(markdown, open) == [content |-> markdown, openIt |-> open]

\* The argument the handler gives createMarkmap (lines 77-80).
MarkmapRequest(markdown, open) == [content |-> markdown, openIt |-> FALSE]

\* error.message, as JavaScript evaluates it on the caught value.
MessageOf(error) ==
    IF error.kind = "Error" THEN JsString(error.message) ELSE JsUndefined

\* `Error: ${error.message}`
ErrorText(error) ==
    <<"E", "r", "r", "o", "r", ":", " ">>
        \o (IF MessageOf(error).type = "string" THEN error.message
            ELSE <<"u", "n", "d", "e", "f", "i", "n", "e", "d">>)

\* The handler answering with a notice in the text item instead of the HTML.
OnFulfilledTextIsNotice(result) ==
    [content |-> <<[type |-> "text", text |-> <<"o", "k">>]>>,
     structuredContent |-> [html |-> result.content, mimeType |-> "text/html",
                            contentLength |-> Len(result.content)],
     meta |-> [mimeType |-> "text/html", contentLength |-> Len(result.content),
               hasHtmlContent |-> TRUE]]

\* The value the handler returns when createMarkmap resolved (lines 82-99).
OnFulfilled(result) ==
    [content |-> <<[type |-> "text", text |-> result.content]>>,
     structuredContent |-> [html |-> result.content, mimeType |-> "text/html",
                            contentLength |-> Len(result.content)],
     meta |-> [mimeType |-> "text/html", contentLength |-> Len(result.content),
               hasHtmlContent |-> TRUE]]

\* The value the handler returns from its catch block (lines 100-118).
OnRejected(error) ==
    [content |-> <<[type |-> "text", text |-> ErrorText(error)]>>,
     structuredContent |-> [error |-> MessageOf(error), success |-> FALSE],
     meta |-> [error |-> "Failed to generate markmap", message |-> MessageOf(error),
               success |-> FALSE]]

\* Reading .message of null or undefined raises a TypeError inside the catch block.
CatchRaises(error) == error.kind = "null"

Init ==
    /\ transports = [s \in Sids |-> NoTransport]
    /\ tr = [t \in Reqs |-> NewTransport]
    /\ req = [r \in Reqs |-> NewReq]
    /\ nextId = 1
    /\ sd = [pc |-> "idle", keys |-> <<>>, i |-> 1]
    /\ proc = "up"
    /\ express = "unobserved"
    /\ tool = IdleTool

\* Exchange r is the next one to arrive, bearing header h.  An identifier that
\* randomUUID() has not returned yet is a string no client holds: UnknownId
\* stands for every such header.
Arrives(r, h) ==
    /\ proc = "up"
    /\ req[r].pc = "new"
    /\ \A p \in Reqs : p < r => req[p].pc # "new"
    /\ h \in Sids => h < nextId

Arrived(r, verb, h, isInit) ==
    [req[r] EXCEPT !.verb = verb, !.hdr = h, !.init = isInit,
                   !.named = (h \in Sids /\ transports[h] # NoTransport)]

\* app.post("/mcp") up to its first await.
\* One McpServer constructed at module load and connected to every transport.
SharedServer(r) == 1

\* new McpServer({...}) inside the initialization branch (lines 128-131): each
\* exchange that takes the branch constructs an instance of its own.
NewServer(r) == r

PostReceive(r, h, isInit) ==
    /\ Arrives(r, h)
    /\ LET q == Arrived(r, "POST", h, isInit)
           route == PostRoute(transports, h, isInit)
       IN  CASE route = "reuse" ->
                  LET t == Lookup(transports, h)
                  IN  /\ req' = [req EXCEPT ![r] =
                              IF t = Inherited
                              THEN CatchPost([q EXCEPT !.tr = t])
                              ELSE [q EXCEPT !.tr = t, !.pc = "handle"]]
                      /\ tr' = tr
            [] route = "create" ->
                  /\ tr' = [tr EXCEPT ![r].made = TRUE, ![r].server = NewServer(r)]
                  /\ req' = [req EXCEPT ![r] = [q EXCEPT !.tr = r, !.pc = "connect"]]
            [] route = "reject" ->
                  /\ req' = [req EXCEPT ![r] = Respond(q, 400, "rpc-32000")]
                  /\ tr' = tr
    /\ UNCHANGED <<transports, nextId, sd, proc, express, tool>>

\* A sessionIdGenerator that returns a fixed string.
GenerateIdFixed(n) == 1

\* sessionIdGenerator: () => randomUUID() (line 111): the n-th call returns a
\* value no earlier call returned.
GenerateId(n) == n

\* An onsessioninitialized callback that only logs.
RegisterNothing(table, sid, t) == table

\* onsessioninitialized (lines 113-124): the table entry for the new identifier.
Register(table, sid, t) == [table EXCEPT ![sid] = t]

\* await server.connect(transport) settles (line 134) and, when it resolved,
\* transport.handleRequest is called on the initialization frame (line 135): the
\* transport calls sessionIdGenerator and then onsessioninitialized before it
\* first yields, or faults before it has generated an identifier.
\*   "refused": connect rejected;  "fault": handleRequest rejected at once;
\*   "session": the identifier is generated and the callback has run.
ConnectSettled(r, step) ==
    /\ proc = "up"
    /\ req[r].pc = "connect"
    /\ CASE step = "refused" ->
              /\ req' = [req EXCEPT ![r] = CatchPost(req[r])]
              /\ UNCHANGED <<transports, tr, nextId>>
         [] step = "fault" ->
              /\ tr' = [tr EXCEPT ![r].connected = TRUE]
              /\ req' = [req EXCEPT ![r] = CatchPost(req[r])]
              /\ UNCHANGED <<transports, nextId>>
         [] step = "session" ->
              /\ nextId <= MaxReqs
              /\ tr' = [tr EXCEPT ![r].connected = TRUE, ![r].sid = GenerateId(nextId)]
              /\ transports' = Register(transports, GenerateId(nextId), r)
              /\ nextId' = nextId + 1
              /\ req' = [req EXCEPT ![r].pc = "respond"]
    /\ UNCHANGED <<sd, proc, express, tool>>

\* transport.handleRequest on the initialization frame settles.
\* The response the transport writes carries the identifier in Mcp-Session-Id.
InitRespond(r, outcome) ==
    /\ proc = "up"
    /\ req[r].pc = "respond"
    /\ LET sent == [TransportCommit(req[r]) EXCEPT !.sid = tr[r].sid]
       IN  req' = [req EXCEPT ![r] =
                CASE outcome = "ok" -> [sent EXCEPT !.pc = "done"]
                  [] outcome = "throwBefore" -> CatchPost(req[r])
                  [] outcome = "throwAfter" -> CatchPost(sent)]
    /\ UNCHANGED <<transports, tr, nextId, sd, proc, express, tool>>

\* await transport.handleRequest(req, res, req.body) on an existing transport
\* settles (line 152), with the catch block of app.post.
PostHandle(r, outcome) ==
    /\ proc = "up"
    /\ req[r].pc = "handle"
    /\ req[r].verb = "POST"
    /\ req' = [req EXCEPT ![r] =
            CASE outcome = "ok" -> [TransportCommit(req[r]) EXCEPT !.pc = "done"]
              [] outcome = "throwBefore" -> CatchPost(req[r])
              [] outcome = "throwAfter" -> CatchPost(TransportCommit(req[r]))]
    /\ UNCHANGED <<transports, tr, nextId, sd, proc, express, tool>>

\* app.get("/mcp") up to its await.
GetReceive(r, h, forwards) ==
    /\ Arrives(r, h)
    /\ LET q == Arrived(r, "GET", h, FALSE)
           t == Lookup(transports, h)
       IN  IF MissingOrUnknown(transports, h)
           THEN /\ req' = [req EXCEPT ![r] =
                        Respond(q, 400, "Invalid or missing session ID")]
                /\ UNCHANGED <<proc, express>>
           ELSE IF t = Inherited
           THEN \* transport.handleRequest is not a function: the handler rejects
                /\ req' = [req EXCEPT ![r] = RejectedGet([q EXCEPT !.tr = t], forwards)]
                /\ Observes(forwards)
                /\ AfterRejection(forwards)
           ELSE /\ req' = [req EXCEPT ![r] = [q EXCEPT !.tr = t, !.pc = "handle"]]
                /\ UNCHANGED <<proc, express>>
    /\ UNCHANGED <<transports, tr, nextId, sd, tool>>

\* await transport.handleRequest(req, res) of app.get settles (line 233).
GetHandle(r, outcome, forwards) ==
    /\ proc = "up"
    /\ req[r].pc = "handle"
    /\ req[r].verb = "GET"
    /\ IF outcome = "ok"
       THEN /\ req' = [req EXCEPT ![r] = [TransportCommit(req[r]) EXCEPT !.pc = "done"]]
            /\ UNCHANGED <<proc, express>>
       ELSE /\ req' = [req EXCEPT ![r] =
                    IF outcome = "throwBefore" THEN RejectedGet(req[r], forwards)
                    ELSE RejectedGet(TransportCommit(req[r]), forwards)]
            /\ Observes(forwards)
            /\ AfterRejection(forwards)
    /\ UNCHANGED <<transports, tr, nextId, sd, tool>>

\* app.delete("/mcp") up to its await.
DeleteReceive(r, h) ==
    /\ Arrives(r, h)
    /\ LET q == Arrived(r, "DELETE", h, FALSE)
           t == Lookup(transports, h)
       IN  req' = [req EXCEPT ![r] =
                IF MissingOrUnknown(transports, h)
                THEN Respond(q, 400, "Invalid or missing session ID")
                ELSE IF t = Inherited
                THEN \* transport.handleRequest is not a function, inside the try
                     CatchDelete([q EXCEPT !.tr = t])
                ELSE [q EXCEPT !.tr = t, !.pc = "handle"]]
    /\ UNCHANGED <<transports, tr, nextId, sd, proc, express, tool>>

\* The cleanup of app.delete deleting the table's first key instead of the key
\* the request named.
DeleteCleanupFirstKey(table, sid, outcome) ==
    IF outcome = "ok" /\ Lookup(table, sid) # NoTransport
    THEN [table EXCEPT ![OwnKeys(table)[1]] = NoTransport]
    ELSE table

\* The cleanup of app.delete emptying the table instead of deleting one key.
DeleteCleanupAll(table, sid, outcome) ==
    IF outcome = "ok" /\ Lookup(table, sid) # NoTransport
    THEN [s \in Sids |-> NoTransport]
    ELSE table

\* Lines 270-281: the statements after the await run only when it resolved.
DeleteCleanup(table, sid, outcome) ==
    IF outcome = "ok" /\ Lookup(table, sid) # NoTransport
    THEN [table EXCEPT ![sid] = NoTransport]
    ELSE table

\* await transport.handleRequest(req, res) of app.delete settles (line 270): the
\* transport closed itself and answered, or it faulted (closed or not).
DeleteHandle(r, outcome, closes) ==
    /\ proc = "up"
    /\ req[r].pc = "handle"
    /\ req[r].verb = "DELETE"
    /\ outcome = "ok" => closes
    /\ tr' = [tr EXCEPT ![req[r].tr].closed = @ \/ closes]
    /\ transports' = DeleteCleanup(transports, req[r].hdr, outcome)
    /\ req' = [req EXCEPT ![r] =
            CASE outcome = "ok" -> [TransportCommit(req[r]) EXCEPT !.pc = "done"]
              [] outcome = "throwBefore" -> CatchDelete(req[r])
              [] outcome = "throwAfter" -> CatchDelete(TransportCommit(req[r]))]
    /\ UNCHANGED <<nextId, sd, proc, express, tool>>

\* for (const sessionId in transports): the keys are those the object held when
\* the loop started; a key deleted before its turn is skipped.  The index of the
\* next key the loop visits, from position i on.
RECURSIVE NextLive(_, _, _)
NextLive(table, keys, i) ==
    IF i > Len(keys) THEN i
    ELSE IF table[keys[i]] # NoTransport THEN i
    ELSE NextLive(table, keys, i + 1)

\* Lines 333-334 and the catch of lines 335-344: the entry is deleted only when
\* close resolved.
ShutdownCleanup(table, k, ok) ==
    IF ok THEN [table EXCEPT ![k] = NoTransport] ELSE table

\* The loop with its try/catch around the for statement: a rejected close ends it.
ShutdownAdvanceStopsOnError(table, keys, i, ok) ==
    IF ok THEN NextLive(table, keys, i + 1) ELSE Len(keys) + 1

\* Where the loop goes after the close of keys[i] settled: on to the next key,
\* whether close resolved or rejected.
ShutdownAdvance(table, keys, i, ok) == NextLive(table, keys, i + 1)

\* The handler from position j of its loop to its next await: it calls close on
\* the transport of keys[j], or leaves the loop and calls process.exit(0).
ShutdownVisit(table, keys, j) ==
    IF j > Len(keys)
    THEN /\ sd' = [pc |-> "exited", keys |-> keys, i |-> j]
         /\ proc' = "exited"
         /\ tr' = tr
    ELSE /\ sd' = [pc |-> "closing", keys |-> keys, i |-> j]
         /\ proc' = proc
         /\ tr' = [tr EXCEPT ![table[keys[j]]].closeCalled = TRUE]

\* process.on("SIGINT") up to its first await.
Sigint ==
    /\ proc = "up"
    /\ sd.pc = "idle"
    /\ ShutdownVisit(transports, OwnKeys(transports), 1)
    /\ UNCHANGED <<transports, req, nextId, express, tool>>

\* await transports[sessionId].close() settles (line 333), up to the next await.
ShutdownCloseSettled(ok) ==
    /\ proc = "up"
    /\ sd.pc = "closing"
    /\ LET k == sd.keys[sd.i]
           table == ShutdownCleanup(transports, k, ok)
           j == ShutdownAdvance(table, sd.keys, sd.i, ok)
       IN  /\ transports' = table
           /\ ShutdownVisit(table, sd.keys, j)
    /\ UNCHANGED <<req, nextId, express, tool>>

Next ==
    \/ \E r \in Reqs, h \in Headers, isInit \in BOOLEAN : PostReceive(r, h, isInit)
    \/ \E r \in Reqs, step \in {"refused", "fault", "session"} : ConnectSettled(r, step)
    \/ \E r \in Reqs, o \in Outcomes : InitRespond(r, o)
    \/ \E r \in Reqs, o \in Outcomes : PostHandle(r, o)
    \/ \E r \in Reqs, h \in Headers, f \in BOOLEAN : GetReceive(r, h, f)
    \/ \E r \in Reqs, o \in Outcomes, f \in BOOLEAN : GetHandle(r, o, f)
    \/ \E r \in Reqs, h \in Headers : DeleteReceive(r, h)
    \/ \E r \in Reqs, o \in Outcomes, c \in BOOLEAN : DeleteHandle(r, o, c)
    \/ Sigint
    \/ \E ok \in BOOLEAN : ShutdownCloseSettled(ok)

Spec == Init /\ [][Next]_vars

\* The markdown_to_mindmap handler is called and awaits createMarkmap (line 77).
ToolCall(markdown, open) ==
    /\ tool.pc = "idle"
    /\ tool' = [tool EXCEPT !.pc = "awaiting", !.markdown = markdown, !.open = open,
                            !.request = MarkmapRequest(markdown, open)]
    /\ UNCHANGED <<transports, tr, req, nextId, sd, proc, express>>

\* createMarkmap resolved: the handler returns the HTML.
ToolFulfilled ==
    /\ tool.pc = "awaiting"
    /\ tool' = [tool EXCEPT !.pc = "settled",
                            !.outcome = [kind |-> "fulfilled", message |-> <<>>],
                            !.result = OnFulfilled(CreateMarkmap(tool.request))]
    /\ UNCHANGED <<transports, tr, req, nextId, sd, proc, express>>

\* createMarkmap rejected with error: the catch block runs.
ToolRejected(error) ==
    /\ tool.pc = "awaiting"
    /\ tool' = IF CatchRaises(error)
               THEN [tool EXCEPT !.pc = "settled", !.outcome = error,
                                 !.threw = TRUE, !.raised = TRUE]
               ELSE [tool EXCEPT !.pc = "settled", !.outcome = error,
                                 !.threw = TRUE, !.result = OnRejected(error)]
    /\ UNCHANGED <<transports, tr, req, nextId, sd, proc, express>>

\* The handler is registered once and called again for the next tools/call.
ToolAgain ==
    /\ tool.pc = "settled"
    /\ tool' = [IdleTool EXCEPT !.prev =
                   [has |-> TRUE, markdown |-> tool.markdown, open |-> tool.open,
                    request |-> tool.request, outcome |-> tool.outcome,
                    raised |-> tool.raised, result |-> tool.result]]
    /\ UNCHANGED <<transports, tr, req, nextId, sd, proc, express>>

ToolNext ==
    \/ \E markdown \in Markdowns, open \in BOOLEAN : ToolCall(markdown, open)
    \/ ToolFulfilled
    \/ \E error \in Thrown : ToolRejected(error)
    \/ ToolAgain

ToolSpec == Init /\ [][ToolNext]_vars

(***************************************************************************)
(* Properties                                                              *)
(***************************************************************************)

\* The transport that generated identifier s.
TransportOf(s) == CHOOSE t \in Reqs : tr[t].sid = s

\* Exchange r constructed a (Protocol Server, Session Transport) pair.
Created(r) == tr[r].made

\* Exchange r is a DELETE that was handed transport t and has finished.
DeleteFinishedOn(r, t) ==
    /\ req[r].verb = "DELETE"
    /\ req[r].pc = "done"
    /\ req[r].tr = t

\* Exchange r arrives in this step.
ArrivesNow(r) == req[r].pc = "new" /\ req'[r].pc # "new"

\* C1: every identifier returned by an initialization POST is returned once, and
\* a POST bearing an identifier that is in the table is handed the transport that
\* generated that identifier, constructs no pair and adds no table entry.
C1_InitThenReuse ==
    /\ \A r1, r2 \in Reqs :
          (r1 # r2 /\ req[r1].sid # 0 /\ req[r2].sid # 0) => req[r1].sid # req[r2].sid
    /\ \A r \in Reqs :
          (req[r].verb = "POST" /\ req[r].pc # "new" /\ req[r].named) =>
              /\ req[r].tr \in Reqs
              /\ tr[req[r].tr].sid = req[r].hdr
              /\ ~Created(r)
              /\ \A s \in Sids : transports[s] # r

\* An initialization POST was answered with an identifier, and a later POST
\* bearing it was answered by the transport of that session.
C1_Witness ==
    \E r1, r2 \in Reqs :
        /\ r1 < r2
        /\ req[r1].pc = "done" /\ req[r1].status = 200 /\ req[r1].sid # 0
        /\ req[r2].verb = "POST" /\ req[r2].hdr = req[r1].sid
        /\ req[r2].pc = "done" /\ req[r2].status = 200 /\ req[r2].tr = r1

\* C2: once a DELETE that named a session of the table has finished, the table
\* holds no entry for that identifier, whatever the transport's handling did.
C2_DeleteAlwaysRemoves ==
    \A r \in Reqs :
        (req[r].verb = "DELETE" /\ req[r].named /\ req[r].pc = "done") =>
            transports[req[r].hdr] = NoTransport

\* C3: when the process exits from the SIGINT handler, the table is empty and
\* close was called on every transport the handler found in the table.
C3_ShutdownEmptiesTable ==
    proc = "exited" =>
        /\ \A s \in Sids : transports[s] = NoTransport
        /\ \A j \in 1..Len(sd.keys) :
              LET t == TransportOf(sd.keys[j])
              IN  tr[t].closeCalled \/ \E r \in Reqs : DeleteFinishedOn(r, t)

\* C4: a GET or DELETE whose header is missing or names no session of the table
\* is answered 400 "Invalid or missing session ID" in the step it arrives in,
\* no transport is invoked and the table is unchanged.
C4_UnknownSessionRejected ==
    [][\A r \in Reqs :
          (ArrivesNow(r) /\ req'[r].verb \in {"GET", "DELETE"} /\ ~req'[r].named) =>
              /\ req'[r].pc = "done"
              /\ req'[r].nresp = 1
              /\ req'[r].status = 400
              /\ req'[r].body = "Invalid or missing session ID"
              /\ req'[r].tr = NoTransport
              /\ UNCHANGED <<transports, tr>>]_vars

\* C5: a POST without session header whose body is no initialization frame is
\* answered 400 with the -32000 envelope in the step it arrives in; it creates
\* no transport, generates no identifier and leaves the table unchanged.
C5_NoSessionNoInitRejected ==
    [][\A r \in Reqs :
          (ArrivesNow(r) /\ req'[r].verb = "POST" /\ req'[r].hdr = NoHeader
                /\ ~req'[r].init) =>
              /\ req'[r].pc = "done"
              /\ req'[r].nresp = 1
              /\ req'[r].status = 400
              /\ req'[r].body = "rpc-32000"
              /\ req'[r].tr = NoTransport
              /\ UNCHANGED <<transports, tr, nextId>>]_vars

\* A POST with no header and a body that is no initialization frame was answered.
C5_Witness ==
    \E r \in Reqs :
        /\ req[r].verb = "POST" /\ req[r].hdr = NoHeader /\ ~req[r].init
        /\ req[r].pc = "done" /\ req[r].status = 400 /\ req[r].body = "rpc-32000"

\* C6: a POST whose header is present and names no session of the table is
\* answered 400 with the -32000 envelope in the step it arrives in, also when
\* its body is an initialization frame; no session is created and the table is
\* unchanged.
C6_UnknownHeaderRejected ==
    [][\A r \in Reqs :
          (ArrivesNow(r) /\ req'[r].verb = "POST" /\ req'[r].hdr # NoHeader
                /\ ~req'[r].named) =>
              /\ req'[r].pc = "done"
              /\ req'[r].nresp = 1
              /\ req'[r].status = 400
              /\ req'[r].body = "rpc-32000"
              /\ UNCHANGED <<transports, tr, nextId>>]_vars

\* A transport that registered an identifier is still the table's entry for it.
Routable(t) == tr[t].sid # 0 /\ Lookup(transports, tr[t].sid) = t

\* C7: initializations that ran interleaved each registered their own entry: the
\* identifiers differ, every entry is keyed by the identifier of the transport
\* it holds, and the entry of a session is absent only after a DELETE handed to
\* that session's transport or after the SIGINT handler called close on it, so
\* a DELETE of one session leaves the other present and routable.
C7_ConcurrentInitsIndependent ==
    /\ \A t1, t2 \in Reqs :
          (t1 # t2 /\ tr[t1].sid # 0 /\ tr[t2].sid # 0) => tr[t1].sid # tr[t2].sid
    /\ \A s \in Sids : transports[s] # NoTransport => tr[transports[s]].sid = s
    /\ \A t \in Reqs :
          tr[t].sid # 0 =>
              \/ Routable(t)
              \/ \E r \in Reqs : DeleteFinishedOn(r, t)
              \/ tr[t].closeCalled

\* Exchange 1 arrived first and registered second, so the two initializations
\* overlapped; both were answered; the DELETE of one session was answered and
\* the other session is still routable.
C7_Witness ==
    /\ tr[1].sid = 2 /\ tr[2].sid = 1
    /\ req[1].status = 200 /\ req[1].sid = 2
    /\ req[2].status = 200 /\ req[2].sid = 1
    /\ DeleteFinishedOn(3, 2) /\ req[3].status = 200
    /\ transports[1] = NoTransport
    /\ Routable(1)
    /\ Cardinality({s \in Sids : transports[s] # NoTransport}) = 1

\* C8: every finished exchange was answered exactly once.
C8_ExactlyOneResponse ==
    \A r \in Reqs : req[r].pc = "done" => req[r].nresp = 1

\* C9: the SIGINT loop passes no key without calling close on its transport,
\* unless a DELETE of that session finished first, whether or not an earlier
\* close rejected; and no step of the handler writes to any exchange.
C9_ShutdownLoopContinues ==
    [][/\ \A j \in 1..Len(sd'.keys) :
             j < sd'.i =>
                 LET t == CHOOSE u \in Reqs : tr'[u].sid = sd'.keys[j]
                 IN  tr'[t].closeCalled
                       \/ \E r \in Reqs : /\ req'[r].verb = "DELETE"
                                           /\ req'[r].pc = "done"
                                           /\ req'[r].tr = t
       /\ sd' # sd => req' = req]_vars

\* The process exited; the close of the first key rejected (its entry is still
\* there) and close was called on the transport of the key after it.
C9_Witness ==
    /\ proc = "exited"
    /\ Len(sd.keys) = 2
    /\ transports[sd.keys[1]] # NoTransport
    /\ tr[TransportOf(sd.keys[1])].closeCalled
    /\ tr[TransportOf(sd.keys[2])].closeCalled

\* C10: when createMarkmap rejects, the handler returns (it does not raise) a
\* result whose structured content has success = false and an error that is a
\* non-empty string.
C10_FailureIsReported ==
    (tool.pc = "settled" /\ tool.threw) =>
        /\ ~tool.raised
        /\ tool.result.structuredContent.success = FALSE
        /\ tool.result.structuredContent.error.type = "string"
        /\ Len(tool.result.structuredContent.error.s) > 0

\* The handler returned after createMarkmap resolved.
ToolSucceeded == tool.pc = "settled" /\ ~tool.threw /\ ~tool.raised

\* C11 as stated: when createMarkmap returns HTML, the structured result has a
\* success field that is true, a non-empty html, a contentLength equal to the
\* length of html, and the text item holds the same HTML.
C11_SuccessResultWithFlag ==
    ToolSucceeded =>
        LET sc == tool.result.structuredContent
        IN  /\ "success" \in DOMAIN sc
            /\ sc.success = TRUE
            /\ Len(sc.html) > 0
            /\ sc.contentLength = Len(sc.html)
            /\ tool.result.content[1].text = sc.html

\* C11 (amended): when createMarkmap returns HTML, the structured result has
\* exactly the fields html, mimeType and contentLength (no success field): html
\* is the non-empty HTML, mimeType is "text/html", contentLength is the length
\* of html, and the single text item holds the same HTML.
C11_SuccessResult ==
    ToolSucceeded =>
        LET sc == tool.result.structuredContent
        IN  /\ DOMAIN sc = {"html", "mimeType", "contentLength"}
            /\ Len(sc.html) > 0
            /\ sc.html = CreateMarkmap(tool.request).content
            /\ sc.mimeType = "text/html"
            /\ sc.contentLength = Len(sc.html)
            /\ Len(tool.result.content) = 1
            /\ tool.result.content[1].text = sc.html

\* The handler returned the rendering of a three-character Markdown text.
C11_Witness ==
    /\ ToolSucceeded
    /\ tool.markdown = <<"#", "a", "a">>
    /\ tool.result.structuredContent.contentLength = 5

Terminated(t) == tr[t].closeCalled \/ \E r \in Reqs : DeleteFinishedOn(r, t)

\* C13: the entry of a new identifier is in the table from the step that
\* generates the identifier, so before the response carrying it is written:
\* every response carries the identifier of the transport that registered it,
\* every generated identifier has its entry until its session is terminated,
\* and an exchange bearing a generated identifier found no entry only for a
\* terminated session.
C13_RegisteredBeforeAnswered ==
    /\ \A r \in Reqs : req[r].sid # 0 => tr[r].sid = req[r].sid
    /\ \A s \in Sids :
          s < nextId => (transports[s] = TransportOf(s) \/ Terminated(TransportOf(s)))
    /\ \A r \in Reqs :
          (req[r].pc # "new" /\ req[r].hdr \in Sids /\ ~req[r].named) =>
              Terminated(TransportOf(req[r].hdr))

\* An initialization was answered with its identifier and a GET bearing that
\* identifier found the entry and was answered by the session's transport.
C13_Witness ==
    \E r1, r2 \in Reqs :
        /\ req[r1].pc = "done" /\ req[r1].status = 200 /\ req[r1].sid # 0
        /\ req[r2].verb = "GET" /\ req[r2].hdr = req[r1].sid /\ req[r2].named
        /\ req[r2].pc = "done" /\ req[r2].status = 200 /\ req[r2].tr = r1

\* The three outcomes of a POST exchange.
ReusedExisting(r) == req[r].tr \in Reqs /\ req[r].tr # r /\ ~Created(r)

CreatedSession(r) == req[r].tr = r /\ Created(r)

Rejected(r) ==
    /\ req[r].tr = NoTransport /\ ~Created(r)
    /\ req[r].pc = "done" /\ req[r].status = 400 /\ req[r].body = "rpc-32000"

\* C14: every POST exchange that arrived took exactly one of the three
\* outcomes (an existing transport was invoked, a new pair was constructed and
\* invoked, the request was rejected), and no transport is the table's entry
\* for two identifiers, nor do two transports own one identifier.
C14_OneOutcomeOneEntry ==
    /\ \A r \in Reqs :
          (req[r].verb = "POST" /\ req[r].pc # "new") =>
              /\ ReusedExisting(r) \/ CreatedSession(r) \/ Rejected(r)
              /\ ~(ReusedExisting(r) /\ CreatedSession(r))
              /\ ~(ReusedExisting(r) /\ Rejected(r))
              /\ ~(CreatedSession(r) /\ Rejected(r))
    /\ \A s1, s2 \in Sids :
          (s1 # s2 /\ transports[s1] # NoTransport) => transports[s1] # transports[s2]
    /\ \A t1, t2 \in Reqs :
          (t1 # t2 /\ tr[t1].sid # 0) => tr[t1].sid # tr[t2].sid

\* C15: an identifier is issued once.  A key that enters the table is an
\* identifier no transport held before, so a removed identifier is never
\* inserted again; a transport keeps the identifier it generated; an entry is
\* never overwritten; and no two transports hold the same identifier.
C15_IdentifierIssuedOnce ==
    [][/\ transports' # transports =>
             /\ \A s \in Sids :
                   (transports[s] = NoTransport /\ transports'[s] # NoTransport) =>
                       \A t \in Reqs : tr[t].sid # s
             /\ \A s \in Sids :
                   (transports[s] # NoTransport /\ transports'[s] # NoTransport) =>
                       transports'[s] = transports[s]
       /\ tr' # tr =>
             /\ \A t \in Reqs : tr[t].sid # 0 => tr'[t].sid = tr[t].sid
             /\ \A t1, t2 \in Reqs :
                   (t1 # t2 /\ tr'[t1].sid # 0) => tr'[t1].sid # tr'[t2].sid]_vars

\* A session was initialized, terminated by DELETE, and an initialization that
\* arrived afterwards registered under another identifier.
C15_Witness ==
    \E r1, r2, r3 \in Reqs :
        /\ r1 < r2 /\ r2 < r3
        /\ tr[r1].sid # 0
        /\ DeleteFinishedOn(r2, r1) /\ req[r2].status = 200
        /\ transports[tr[r1].sid] = NoTransport
        /\ tr[r3].sid # 0 /\ Routable(r3)

\* The identifiers exchange r is about after this step: the one its header
\* bears and the one its own transport generated.
SessionsOf(r) == {req'[r].hdr, tr'[r].sid}

\* The entry of s and the transport it holds are the same after this step.
EntryUntouched(s) ==
    /\ transports'[s] = transports[s]
    /\ transports[s] # NoTransport => tr'[transports[s]] = tr[transports[s]]

C17_RemovedOnlyByDeleteOrShutdown ==
    [][\A s \in Sids :
          (transports[s] # NoTransport /\ transports'[s] = NoTransport) =>
              \/ \E r \in Reqs :
                    /\ req[r].verb = "DELETE" /\ req[r].hdr = s
                    /\ req[r].pc = "handle" /\ req'[r].pc = "done"
              \/ sd.pc = "closing" /\ sd.keys[sd.i] = s /\ sd' # sd]_vars

\* A POST and a GET handed to the transport of a session both faulted, and the
\* session is still in the table.
C17_Witness ==
    \E t, r1, r2 \in Reqs :
        /\ Routable(t)
        /\ req[r1].verb = "POST" /\ r1 # t /\ req[r1].tr = t
        /\ req[r1].pc = "done" /\ req[r1].status = 500
        /\ req[r2].verb = "GET" /\ req[r2].tr = t
        /\ req[r2].pc = "done" /\ req[r2].status \in {0, 500}

\* C18: an exchange routed to a transport that finished was answered exactly
\* once: by the transport (200), or, when the transport faulted before the
\* response was committed, with a 500 carrying a generic message.
C18_FaultAnswered500 ==
    \A r \in Reqs :
        (req[r].pc = "done" /\ req[r].tr \in Reqs) =>
            /\ req[r].nresp = 1
            /\ \/ req[r].status = 200 /\ req[r].body = "transport"
               \/ /\ req[r].status = 500
                  /\ req[r].body \in {"rpc-32603", "Error processing session termination",
                                       "express"}

\* C19: every table entry maps its key to the transport whose own session
\* identifier is that key, and that transport is connected to a Protocol Server
\* instance that no other transport was given.
C19_EntryOwnsKeyAndServer ==
    \A s \in Sids :
        transports[s] # NoTransport =>
            LET t == transports[s]
            IN  /\ tr[t].sid = s
                /\ tr[t].connected
                /\ tr[t].server # NoServer
                /\ \A t2 \in Reqs \ {t} : tr[t2].made => tr[t2].server # tr[t].server

\* Two sessions are in the table at once, each with its transport and server.
C19_Witness ==
    \E s1, s2 \in Sids :
        /\ s1 # s2
        /\ transports[s1] # NoTransport /\ transports[s2] # NoTransport
        /\ tr[transports[s1]].server # NoServer /\ tr[transports[s2]].server # NoServer

\* C20: a transport found in the table is never one whose close has completed.
C20_TableHoldsNoClosedTransport ==
    \A s \in Sids :
        transports[s] # NoTransport => ~tr[transports[s]].closed

\* C21: when the process has left through the SIGINT handler, every transport
\* still in the table had close called on it by the handler, or was handed a
\* DELETE; a session initialized while the handler awaited a close included.
C21_ShutdownClosesEveryTransport ==
    proc = "exited" =>
        \A s \in Sids :
            transports[s] # NoTransport => Terminated(transports[s])

\* C22: an initialization POST that was answered with the 500 internal-error
\* envelope left no entry for the session it was creating.
C22_FailedInitLeavesNoSession ==
    \A r \in Reqs :
        (/\ CreatedSession(r)
         /\ req[r].pc = "done"
         /\ req[r].status = 500 /\ req[r].body = "rpc-32603") => ~Routable(r)

====
